---- MODULE Spec2Model ----
(***************************************************************************)
(* Matched-betting calculator: the Bet value object, the four pairwise     *)
(* (back/lay) calculators built on symbolic balance expressions, and the   *)
(* caller's sequence of constructions and calculate_stake calls.           *)
(*                                                                         *)
(* Numbers are exact and scaled to integers:                               *)
(*   money (stake, reimbursement, bonus, rollover)  in cents,              *)
(*   odds                                           in hundredths,         *)
(*   fee and expected rating                        in percent.            *)
(* A balance expression is affine in the unknown lay_stake; it is kept as  *)
(* [c0, c1] with value c0 + c1 * lay_stake, in units of 1/Scale cent.      *)
(***************************************************************************)
EXTENDS Integers, Sequences, FiniteSets, TLC

\* Bound on the number of calculate_stake calls of one run.
MaxCalls == 2

\* Bound on the number of addresses (id values) expression objects can take.
MaxIds == 2

\* Bound on the number of legs of a LegChain.
MaxLegs == 3

\* Bound on the number of hedge bets of a DutchingGroup.
MaxHedges == 3

\* Scale of the balance expressions: 100 (odds) * 100 (percent).
Scale == 100 * 100

----------------------------------------------------------------------------
\* Optional and non-finite numbers.  A stake is absent (Python None), a
\* number of cents, or one of sympy's zoo / nan.
None == [kind |-> "none", v |-> 0]
Num(n) == [kind |-> "num", v |-> n]
Zoo == [kind |-> "zoo", v |-> 0]
NaN == [kind |-> "nan", v |-> 0]
Rat(n, d) == [kind |-> "rat", num |-> n, den |-> d]

IsNum(x) == x.kind = "num"

Abs(x) == IF x < 0 THEN -x ELSE x

\* Exact fractions in lowest terms, the denominator positive.
RECURSIVE GCD(_, _)
GCD(a, b) == IF b = 0 THEN a ELSE GCD(b, a % b)

Norm(n, d) ==
    LET g == GCD(Abs(n), Abs(d))
        sgn == IF d < 0 THEN -1 ELSE 1
    IN  Rat((sgn * n) \div g, (sgn * d) \div g)

\* a * b and a - b of fractions in lowest terms.
RMul(a, b) ==
    LET g1 == GCD(Abs(a.num), b.den)
        g2 == GCD(Abs(b.num), a.den)
    IN  Rat((a.num \div g1) * (b.num \div g2), (a.den \div g2) * (b.den \div g1))

RSub(a, b) ==
    LET g == GCD(a.den, b.den)
    IN  Norm(a.num * (b.den \div g) - b.num * (a.den \div g),
             (a.den \div g) * b.den)

NoBet == [absent |-> TRUE]
NoCalc == [absent |-> TRUE]
NoResult == [absent |-> TRUE]

\* Arguments the caller passes.  Each set holds values on both sides of every
\* range check of the code.
OddsInputs == {50, 100, 210, 550}
StakeInputs == {None, Num(0), Num(5000), Num(10000)}
FeeInputs == {-5, 0, 5, 100, 101}
ReimbursementInputs == {-1000, 7000, 15000}
BonusInputs == {5000}
RolloverInputs == {12000, 100000}
RatingInputs == {-5, 0, 90, 100, 110}
Kinds == {"normal", "freebet", "reimbursement", "rollover"}

----------------------------------------------------------------------------
\* Bet.__post_init__: the exception it raises, "none" when it returns.
Bet_post_init(odds, stake, fee) ==
    IF odds < 100 THEN "ValueError"
    ELSE IF stake # None /\ stake.v <= 0 THEN "ValueError"
    ELSE IF ~(0 <= fee /\ fee <= 100) THEN "ValueError"
    ELSE "none"

\* The dataclass Bet(odds, stake, fee).
Bet(odds, stake, fee) == [odds |-> odds, stake |-> stake, fee |-> fee]

----------------------------------------------------------------------------
\* A rounding that drops the digits after the second decimal.
RoundDown(n, d) == n \div d

\* round(x, 2) of an exact number: nearest cent, ties to the even cent.
\* n / d is a number of cents, d > 0.
RoundHalfEven(n, d) ==
    LET q == n \div d
        r == n % d
    IN  IF 2 * r < d THEN q
        ELSE IF 2 * r > d THEN q + 1
        ELSE IF q % 2 = 0 THEN q ELSE q + 1

\* round(value, 2): zoo and nan round to themselves.
round2(x) ==
    IF x.kind = "rat" THEN Num(RoundHalfEven(x.num, x.den)) ELSE x

----------------------------------------------------------------------------
\* get_subs: the numeric value of every symbol, read from the bets and the
\* calculator when calculate_stake runs.
get_subs(c, bb, lb) ==
    [bb_stake |-> bb.stake.v, bb_odds |-> bb.odds, bb_fee |-> bb.fee,
     lb_odds |-> lb.odds, lb_fee |-> lb.fee,
     reimbursement_sy |-> c.reimbursement,
     bonus_amount |-> c.bonus_amount,
     remaining_rollover |-> c.remaining_rollover,
     expected_rating |-> c.expected_rating]

\* BackLayNormalCalculator.build_back_balance_expr:
\*   bb_stake*(bb_odds*(1 - bb_fee/100) - 1) - lay_stake*(lb_odds - 1)
Normal_build_back_balance_expr(s) ==
    [c0 |-> s.bb_stake * (s.bb_odds * (100 - s.bb_fee) - Scale),
     c1 |-> -(100 * (s.lb_odds - 100))]

\* BackLayNormalCalculator.build_lay_balance_expr:
\*   lay_stake*(1 - lb_fee/100) - bb_stake
Normal_build_lay_balance_expr(s) ==
    [c0 |-> -(Scale * s.bb_stake),
     c1 |-> 100 * (100 - s.lb_fee)]

\* BackLayFreebetCalculator.build_back_balance_expr:
\*   bb_stake*(bb_odds - 1)*(1 - bb_fee/100) - lay_stake*(lb_odds - 1)
Freebet_build_back_balance_expr(s) ==
    [c0 |-> s.bb_stake * (s.bb_odds - 100) * (100 - s.bb_fee),
     c1 |-> -(100 * (s.lb_odds - 100))]

\* BackLayFreebetCalculator.build_lay_balance_expr: lay_stake*(1 - lb_fee/100)
Freebet_build_lay_balance_expr(s) ==
    [c0 |-> 0,
     c1 |-> 100 * (100 - s.lb_fee)]

\* BackLayReimbursementCalculator.build_back_balance_expr: as Normal.
Reimbursement_build_back_balance_expr(s) ==
    [c0 |-> s.bb_stake * (s.bb_odds * (100 - s.bb_fee) - Scale),
     c1 |-> -(100 * (s.lb_odds - 100))]

\* BackLayReimbursementCalculator.build_lay_balance_expr:
\*   lay_stake*(1 - lb_fee/100) - bb_stake + reimbursement_sy
Reimbursement_build_lay_balance_expr(s) ==
    [c0 |-> -(Scale * s.bb_stake) + Scale * s.reimbursement_sy,
     c1 |-> 100 * (100 - s.lb_fee)]

\* rollover_penalty of BackLayRolloverCalculator.build_back_balance_expr:
\*   (remaining_rollover - bb_stake - bonus_amount)*(1 - expected_rating/100)
rollover_penalty(s) ==
    100 * (s.remaining_rollover - s.bb_stake - s.bonus_amount)
        * (100 - s.expected_rating)

\* BackLayRolloverCalculator.build_back_balance_expr:
\*   (bb_stake + bonus_amount)*bb_odds*(1 - bb_fee/100) - bb_stake
\*     - lay_stake*(lb_odds - 1) - rollover_penalty
Rollover_build_back_balance_expr(s) ==
    [c0 |-> (s.bb_stake + s.bonus_amount) * s.bb_odds * (100 - s.bb_fee)
            - Scale * s.bb_stake
            - rollover_penalty(s),
     c1 |-> -(100 * (s.lb_odds - 100))]

\* BackLayRolloverCalculator.build_lay_balance_expr:
\*   lay_stake*(1 - lb_fee/100) - bb_stake
Rollover_build_lay_balance_expr(s) ==
    [c0 |-> -(Scale * s.bb_stake),
     c1 |-> 100 * (100 - s.lb_fee)]

\* self.back_balance_expr of a calculator of the given class, with the
\* substitutions s applied to every symbol but lay_stake.
back_balance_expr(kind, s) ==
    CASE kind = "normal" -> Normal_build_back_balance_expr(s)
      [] kind = "freebet" -> Freebet_build_back_balance_expr(s)
      [] kind = "reimbursement" -> Reimbursement_build_back_balance_expr(s)
      [] kind = "rollover" -> Rollover_build_back_balance_expr(s)

\* self.lay_balance_expr, likewise.
lay_balance_expr(kind, s) ==
    CASE kind = "normal" -> Normal_build_lay_balance_expr(s)
      [] kind = "freebet" -> Freebet_build_lay_balance_expr(s)
      [] kind = "reimbursement" -> Reimbursement_build_lay_balance_expr(s)
      [] kind = "rollover" -> Rollover_build_lay_balance_expr(s)

\* expr.subs({lay_stake: x}) for a number of cents x, in 1/Scale cent.
Eval(expr, x) == expr.c0 + expr.c1 * x

\* A solution with the constant of the lay balance on the wrong side.
Solve_sign_slip(back, lay) ==
    LET n == back.c0 + lay.c0
        d == lay.c1 - back.c1
    IN  IF d # 0 THEN Rat(n, d)
        ELSE IF n # 0 THEN Zoo
        ELSE NaN

\* sp.solve(sp.Eq(back, lay), lay_stake)[0].subs(subs): the symbolic solution
\* is the quotient (back.c0 - lay.c0) / (lay.c1 - back.c1); substituting the
\* numbers into it gives zoo when only the denominator is zero and nan when
\* numerator and denominator both are.
Solve(back, lay) ==
    LET n == back.c0 - lay.c0
        d == lay.c1 - back.c1
    IN  IF d # 0 THEN Rat(n, d)
        ELSE IF n # 0 THEN Zoo
        ELSE NaN

\* round(self.lb.stake*(self.lb.odds - 1), 2)
Risk(stake, lb_odds) ==
    IF IsNum(stake) THEN Num(RoundHalfEven(stake.v * (lb_odds - 100), 100))
    ELSE IF stake.kind = "zoo" /\ lb_odds # 100 THEN Zoo
    ELSE NaN

----------------------------------------------------------------------------
VARIABLES
    back_bet,      \* the caller's back Bet, NoBet before it is constructed
    lay_bet,       \* the caller's lay Bet
    calc,          \* the calculator the caller holds, NoCalc before
    result,        \* what the last calculate_stake call returned
    fault,         \* the exception the last operation raised, "none" if none
    last_op,       \* the last operation the caller ran
    args,          \* the arguments of the last Bet(...) call
    calls,         \* calculate_stake calls made so far
    returned,      \* calculate_stake calls that returned a result
    stake_writes,  \* assignments to lay_bet.stake made by calculate_stake
    fault_msg,     \* the message of the exception a factory or registry call raised
    registry,      \* the global CalculatorRegistry: its six dictionaries
    registered,    \* the module flag _calculators_registered
    combo,         \* combo stake and combo fee of the accumulated bet
    legs,          \* the LegChain: the list of BackLayGroups, in leg order
    dgroup,        \* the DutchingGroup: the main back bet and the hedge bets
    objects,       \* the live expression objects, by id()
    cached_solutions  \* CalculationEngine._cached_solutions

vars == <<back_bet, lay_bet, calc, result, fault, last_op, args,
          calls, returned, stake_writes,
          fault_msg, registry, registered, combo, legs, dgroup,
          objects, cached_solutions>>

bets == <<back_bet, lay_bet>>
counters == <<calls, returned, stake_writes>>
engine == <<objects, cached_solutions>>
ext == <<fault_msg, registry, registered, combo, legs, dgroup, engine>>

\* CalculatorRegistry.__init__: six empty dictionaries.
EmptyRegistry ==
    [back_lay_calculators |-> <<>>, dutching_calculators |-> <<>>,
     accumulated_calculators |-> <<>>,
     back_lay_params |-> <<>>, dutching_params |-> <<>>,
     accumulated_params |-> <<>>]

NoGroup == [absent |-> TRUE]

\* An id() no live object has.
NoObject == [absent |-> TRUE]

\* No expression object yet, and CalculationEngine.__init__: an empty cache.
NoObjects == [i \in 1..MaxIds |-> NoObject]
EmptyCache == <<>>

Init ==
    /\ back_bet = NoBet
    /\ lay_bet = NoBet
    /\ calc = NoCalc
    /\ result = NoResult
    /\ fault = "none"
    /\ last_op = "start"
    /\ args = NoBet
    /\ calls = 0
    /\ returned = 0
    /\ stake_writes = 0
    /\ fault_msg = [message |-> "", details |-> {}]
    /\ registry = EmptyRegistry
    /\ registered = FALSE
    /\ combo = NoGroup
    /\ legs = <<>>
    /\ dgroup = NoGroup
    /\ objects = NoObjects
    /\ cached_solutions = EmptyCache

\* back_bet = Bet(odds=..., stake=..., fee=...)
NewBackBet ==
    \E odds \in OddsInputs, stake \in StakeInputs, fee \in FeeInputs :
        LET exc == Bet_post_init(odds, stake, fee)
        IN  /\ back_bet = NoBet
            /\ back_bet' = IF exc = "none" THEN Bet(odds, stake, fee) ELSE NoBet
            /\ fault' = exc
            /\ args' = Bet(odds, stake, fee)
            /\ last_op' = "Bet"
            /\ UNCHANGED <<lay_bet, calc, result, counters, ext>>

\* lay_bet = Bet(odds=..., fee=...): the stake is left to the solver.
NewLayBet ==
    \E odds \in OddsInputs, fee \in FeeInputs :
        LET exc == Bet_post_init(odds, None, fee)
        IN  /\ back_bet # NoBet
            /\ lay_bet = NoBet
            /\ lay_bet' = IF exc = "none" THEN Bet(odds, None, fee) ELSE NoBet
            /\ fault' = exc
            /\ args' = Bet(odds, None, fee)
            /\ last_op' = "Bet"
            /\ UNCHANGED <<back_bet, calc, result, counters, ext>>

\* The fields __init__ sets on a calculator; self.risk is set by
\* calculate_stake only.
Calculator(kind, reimbursement, bonus, rollover, rating) ==
    [kind |-> kind, reimbursement |-> reimbursement,
     bonus_amount |-> bonus,
     remaining_rollover |-> rollover,
     expected_rating |-> rating, risk |-> None]

\* BackLayBaseCalculator.__init__ keeps the two bets and builds the symbols
\* and the two symbolic expressions: it reads no number and raises nothing.
BackLayBaseCalculator_init == "none"

\* BackLayReimbursementCalculator.__init__: stores reimbursement, then the
\* base __init__.
BackLayReimbursementCalculator_init(bb, reimbursement) ==
    BackLayBaseCalculator_init

\* A range check with the bounds left out: 0 and 100 are refused.
BackLayRolloverCalculator_init_open(expected_rating) ==
    IF ~(0 < expected_rating /\ expected_rating < 100) THEN "ValueError"
    ELSE BackLayBaseCalculator_init

\* BackLayRolloverCalculator.__init__: the range check of expected_rating,
\* then the base __init__.
BackLayRolloverCalculator_init(expected_rating) ==
    IF ~(0 <= expected_rating /\ expected_rating <= 100) THEN "ValueError"
    ELSE BackLayBaseCalculator_init

\* calc = BackLayNormalCalculator(group) / BackLayFreebetCalculator(group)
NewSimpleCalculator ==
    \E kind \in {"normal", "freebet"} :
        /\ back_bet # NoBet /\ lay_bet # NoBet
        /\ calls < MaxCalls
        /\ calc' = Calculator(kind, 0, 0, 0, 0)
        /\ fault' = BackLayBaseCalculator_init
        /\ last_op' = "Calculator"
        /\ UNCHANGED <<bets, result, args, counters, ext>>

\* calc = BackLayReimbursementCalculator(group, reimbursement)
NewReimbursementCalculator ==
    \E r \in ReimbursementInputs :
        LET exc == BackLayReimbursementCalculator_init(back_bet, r)
        IN  /\ back_bet # NoBet /\ lay_bet # NoBet
            /\ calls < MaxCalls
            /\ calc' = IF exc = "none"
                       THEN Calculator("reimbursement", r, 0, 0, 0)
                       ELSE calc
            /\ fault' = exc
            /\ last_op' = "Calculator"
            /\ UNCHANGED <<bets, result, args, counters, ext>>

\* calc = BackLayRolloverCalculator(group, bonus_amount, remaining_rollover,
\*                                  expected_rating)
NewRolloverCalculator ==
    \E b \in BonusInputs, rr \in RolloverInputs, er \in RatingInputs :
        LET exc == BackLayRolloverCalculator_init(er)
        IN  /\ back_bet # NoBet /\ lay_bet # NoBet
            /\ calls < MaxCalls
            /\ calc' = IF exc = "none"
                       THEN Calculator("rollover", 0, b, rr, er)
                       ELSE calc
            /\ fault' = exc
            /\ last_op' = "Calculator"
            /\ UNCHANGED <<bets, result, args, counters, ext>>

----------------------------------------------------------------------------
\* expr.subs(subs | {lay_stake: lay_stake_val}) for the unrounded solution.
EvalAt(expr, x) ==
    IF x.kind = "rat" THEN Rat(expr.c0 * x.den + expr.c1 * x.num, x.den)
    ELSE IF expr.c1 # 0 THEN x
    ELSE NaN

\* A write-once policy: a stake already present is kept.
store_stake_once(lb, x) ==
    IF lb.stake = None
    THEN [lb |-> [lb EXCEPT !.stake = x], writes |-> 1]
    ELSE [lb |-> lb, writes |-> 0]

\* A write-back that adds the solution to the stake already present.
store_stake_add(lb, x) ==
    IF lb.stake # None /\ IsNum(lb.stake) /\ IsNum(x)
    THEN [lb |-> [lb EXCEPT !.stake = Num(lb.stake.v + x.v)], writes |-> 1]
    ELSE [lb |-> [lb EXCEPT !.stake = x], writes |-> 1]

\* No write-back at all.
store_stake_skip(lb, x) == [lb |-> lb, writes |-> 0]

\* self.lb.stake = <value>: the assignment, and the number of assignments.
store_stake(lb, x) == [lb |-> [lb EXCEPT !.stake = x], writes |-> 1]

\* BackLayBaseCalculator.calculate_stake(self) on calculator c, whose bets
\* are bb and lb: the exception raised, the lay bet and the calculator
\* afterwards, and the mapping returned.  A back bet without stake puts None
\* into the substitutions, which subs refuses.
calculate_stake(c, bb, lb) ==
    IF bb.stake = None
    THEN [exc |-> "SympifyError", lb |-> lb, calc |-> c,
          result |-> NoResult, writes |-> 0]
    ELSE LET subs == get_subs(c, bb, lb)
             back == back_balance_expr(c.kind, subs)
             lay == lay_balance_expr(c.kind, subs)
             lay_stake_val == Solve(back, lay)
             back_val == EvalAt(back, lay_stake_val)
             lay_val == EvalAt(lay, lay_stake_val)
             st == store_stake(lb, round2(lay_stake_val))
             risk == Risk(st.lb.stake, lb.odds)
         IN  [exc |-> "none", lb |-> st.lb, calc |-> [c EXCEPT !.risk = risk],
              result |-> [lay_stake |-> st.lb.stake, risk |-> risk],
              writes |-> st.writes]

\* result = calc.calculate_stake()
CalculateStake ==
    LET r == calculate_stake(calc, back_bet, lay_bet)
    IN  /\ calc # NoCalc
        /\ calls < MaxCalls
        /\ lay_bet' = r.lb
        /\ calc' = r.calc
        /\ result' = r.result
        /\ fault' = r.exc
        /\ last_op' = "calculate_stake"
        /\ calls' = calls + 1
        /\ returned' = IF r.exc = "none" THEN returned + 1 ELSE returned
        /\ stake_writes' = stake_writes + r.writes
        /\ UNCHANGED <<back_bet, args, ext>>

\* result = calc.calculate_stake(apply_result_to_bet=False): the method takes
\* no argument but self, so the call raises TypeError before its body runs.
CalculateStakePure ==
    /\ calc # NoCalc
    /\ calls < MaxCalls
    /\ result' = NoResult
    /\ fault' = "TypeError"
    /\ last_op' = "calculate_stake_pure"
    /\ calls' = calls + 1
    /\ UNCHANGED <<bets, calc, args, returned, stake_writes, ext>>

\* lay_bet.stake = None: the caller resets the stake between two calls.
ResetLayStake ==
    /\ lay_bet # NoBet
    /\ lay_bet.stake # None
    /\ lay_bet' = [lay_bet EXCEPT !.stake = None]
    /\ fault' = "none"
    /\ last_op' = "reset"
    /\ UNCHANGED <<back_bet, calc, result, args, counters, ext>>

Next ==
    \/ NewBackBet
    \/ NewLayBet
    \/ NewSimpleCalculator
    \/ NewReimbursementCalculator
    \/ NewRolloverCalculator
    \/ CalculateStake
    \/ CalculateStakePure
    \/ ResetLayStake

Spec == Init /\ [][Next]_vars

----------------------------------------------------------------------------
\* CalculatorFactory.  A keyword argument is None when the caller leaves it
\* out (kwargs.get(param) is None) and Num(v) when it is supplied.
TypeInputs == Kinds \union {"invalid_type"}
KwargsInputs ==
    [reimbursement : {None, Num(0), Num(7000)},
     bonus_amount : {None, Num(5000)},
     remaining_rollover : {None, Num(12000)},
     expected_rating : {None, Num(-5), Num(0), Num(100), Num(110)}]

\* calculator_map of create_back_lay_calculator and of
\* create_dutching_calculator: the required parameters of every type.
back_lay_calculator_map ==
    [normal |-> <<>>, freebet |-> <<>>,
     reimbursement |-> <<"reimbursement">>,
     rollover |-> <<"bonus_amount", "remaining_rollover", "expected_rating">>]

dutching_calculator_map ==
    [normal |-> <<>>, freebet |-> <<>>,
     reimbursement |-> <<"reimbursement">>,
     rollover |-> <<"bonus_amount", "remaining_rollover", "expected_rating">>]

\* A map for the accumulated strategy that offers the rollover type as well.
accumulated_map_with_rollover == back_lay_calculator_map

\* calculator_map of create_accumulated_calculator.
accumulated_calculator_map ==
    [normal |-> <<>>, freebet |-> <<>>,
     reimbursement |-> <<"reimbursement">>]

\* A check that reports the first missing parameter only.
first_missing_param(required_params, kwargs) ==
    LET missing == SelectSeq(required_params, LAMBDA p : kwargs[p] = None)
    IN  IF missing = <<>> THEN <<>> ELSE <<Head(missing)>>

\* A truthiness test in place of "is None": a supplied 0 counts as missing.
missing_params_falsy(required_params, kwargs) ==
    SelectSeq(required_params,
              LAMBDA p : kwargs[p] = None \/ kwargs[p] = Num(0))

\* [param for param in required_params if kwargs.get(param) is None]
missing_params(required_params, kwargs) ==
    SelectSeq(required_params, LAMBDA p : kwargs[p] = None)

\* The value of a keyword argument that is not required is never read.
Arg(kwargs, required_params, p) ==
    IF \E i \in DOMAIN required_params : required_params[i] = p
    THEN kwargs[p].v ELSE 0

\* calculator_class(back_lay_group, *param_values) of the back-lay classes:
\* the exception of the constructor and the calculator it leaves.
BackLay_construct(kind, bb, kwargs) ==
    LET req == back_lay_calculator_map[kind]
        r == Arg(kwargs, req, "reimbursement")
        b == Arg(kwargs, req, "bonus_amount")
        rr == Arg(kwargs, req, "remaining_rollover")
        er == Arg(kwargs, req, "expected_rating")
        exc == CASE kind = "reimbursement" ->
                      BackLayReimbursementCalculator_init(bb, r)
                 [] kind = "rollover" -> BackLayRolloverCalculator_init(er)
                 [] OTHER -> BackLayBaseCalculator_init
    IN  [exc |-> exc,
         calc |-> IF exc = "none" THEN Calculator(kind, r, b, rr, er)
                  ELSE NoCalc]

\* The fields of a dutching calculator and of an accumulated calculator.
DutchingCalculator(kind, reimbursement, bonus, rollover, rating) ==
    [strategy |-> "dutching", kind |-> kind, reimbursement |-> reimbursement,
     bonus_amount |-> bonus, remaining_rollover |-> rollover,
     expected_rating |-> rating]

AccumulatedCalculator(kind, reimbursement) ==
    [strategy |-> "accumulated", kind |-> kind,
     reimbursement |-> reimbursement]

\* Construction of a dutching calculator validates what the group and the
\* promotion parameters must satisfy: the main back stake is set, the
\* reimbursement lies in [0, back stake], the rating in [0, 100].
Dutching_construct(kind, group, kwargs) ==
    LET req == dutching_calculator_map[kind]
        r == Arg(kwargs, req, "reimbursement")
        b == Arg(kwargs, req, "bonus_amount")
        rr == Arg(kwargs, req, "remaining_rollover")
        er == Arg(kwargs, req, "expected_rating")
        ok == /\ group.back.stake # None
              /\ kind = "reimbursement" => (0 <= r /\ r <= group.back.stake.v)
              /\ kind = "rollover" => (0 <= er /\ er <= 100)
    IN  [exc |-> IF ok THEN "none" ELSE "ValidationError",
         calc |-> IF ok THEN DutchingCalculator(kind, r, b, rr, er)
                  ELSE NoCalc]

\* Construction of an accumulated calculator: the reimbursement lies in
\* [0, combo stake].
Accumulated_construct(kind, combo_stake, combo_fee, groups, kwargs) ==
    LET req == accumulated_calculator_map[kind]
        r == Arg(kwargs, req, "reimbursement")
        ok == kind = "reimbursement" => (0 <= r /\ r <= combo_stake)
    IN  [exc |-> IF ok THEN "none" ELSE "ValidationError",
         calc |-> IF ok THEN AccumulatedCalculator(kind, r) ELSE NoCalc]

\* ConfigurationError(message, details): the message without the values
\* formatted into it, and the names listed in the details.
NoMessage == [message |-> "", details |-> {}]
InvalidTypeMessage == "Invalid calculator type"
MissingParamsMessage == "Missing required parameters"
NotRegisteredMessage == "not registered"
AlreadyRegisteredMessage == "already registered"
ConfigurationError(message, details) ==
    [exc |-> "ConfigurationError",
     msg |-> [message |-> message, details |-> details], calc |-> NoCalc]

Range(seq) == {seq[i] : i \in DOMAIN seq}

\* The two checks every create_* method makes before it calls the class: the
\* type is a key of calculator_map, and no required parameter is None.
factory_checks(calculator_map, calculator_type, kwargs) ==
    IF calculator_type \notin DOMAIN calculator_map
    THEN ConfigurationError(InvalidTypeMessage, DOMAIN calculator_map)
    ELSE LET missing == missing_params(calculator_map[calculator_type], kwargs)
         IN  IF missing # <<>>
             THEN ConfigurationError(MissingParamsMessage, Range(missing))
             ELSE [exc |-> "none", msg |-> NoMessage, calc |-> NoCalc]

\* What a constructor called by the factory leaves: its exception passes
\* through the factory unchanged.
Constructed(c) ==
    [exc |-> c.exc, msg |-> NoMessage, calc |-> c.calc]

\* CalculatorFactory.create_back_lay_calculator(calculator_type, group, **kwargs)
create_back_lay_calculator(calculator_type, group_bb, kwargs) ==
    LET chk == factory_checks(back_lay_calculator_map, calculator_type, kwargs)
    IN  IF chk.exc # "none" THEN chk
        ELSE Constructed(BackLay_construct(calculator_type, group_bb, kwargs))

\* CalculatorFactory.create_dutching_calculator(calculator_type, group, **kwargs)
create_dutching_calculator(calculator_type, group, kwargs) ==
    LET chk == factory_checks(dutching_calculator_map, calculator_type, kwargs)
    IN  IF chk.exc # "none" THEN chk
        ELSE Constructed(Dutching_construct(calculator_type, group, kwargs))

\* CalculatorFactory.create_accumulated_calculator(calculator_type,
\*     combo_stake, combo_fee, back_lay_groups, **kwargs)
create_accumulated_calculator(calculator_type, stake, fee, groups, kwargs) ==
    LET chk == factory_checks(accumulated_calculator_map, calculator_type, kwargs)
    IN  IF chk.exc # "none" THEN chk
        ELSE Constructed(Accumulated_construct(calculator_type, stake, fee,
                                               groups, kwargs))

DutchingGroup(back, dutching_bets) == [back |-> back, bets |-> dutching_bets]
BackLayGroup(back, lay) == [back |-> back, lay |-> lay]
Combo(stake, fee) == [stake |-> stake, fee |-> fee]

\* The groups the factory is called on: the pair of the two-pick test with
\* and without a back stake, the dutching group and the two-leg chain of the
\* tests.
FactoryBackBets == {Bet(200, Num(10000), 5), Bet(200, None, 5)}

InitFactory ==
    /\ back_bet \in FactoryBackBets
    /\ lay_bet = Bet(210, None, 2)
    /\ dgroup = DutchingGroup(Bet(300, Num(10000), 0),
                              <<Bet(170, None, 0), Bet(1500, None, 0)>>)
    /\ combo = Combo(10000, 5)
    /\ legs = <<BackLayGroup(Bet(200, None, 5), Bet(210, None, 4)),
                BackLayGroup(Bet(300, None, 5), Bet(340, None, 4))>>
    /\ calc = NoCalc
    /\ result = NoResult
    /\ fault = "none"
    /\ fault_msg = NoMessage
    /\ last_op = "start"
    /\ args = NoBet
    /\ calls = 0 /\ returned = 0 /\ stake_writes = 0
    /\ registry = EmptyRegistry
    /\ registered = FALSE
    /\ objects = NoObjects
    /\ cached_solutions = EmptyCache

\* What every factory call leaves alone.
factory_frame == <<bets, result, counters, registry, registered,
                   combo, legs, dgroup, engine>>

\* The arguments of a factory call.
FactoryArgs(op, calculator_type, kwargs) ==
    [op |-> op, calculator_type |-> calculator_type, kwargs |-> kwargs]

\* calc = CalculatorFactory.create_back_lay_calculator(t, group, **kw): the
\* caller's variable is assigned only when the call returns; a caller asks
\* for one calculator.
CreateBackLayCalculator ==
    \E t \in TypeInputs, kw \in KwargsInputs :
        LET r == create_back_lay_calculator(t, back_bet, kw)
        IN  /\ calc = NoCalc
            /\ calc' = IF r.exc = "none" THEN r.calc ELSE calc
            /\ fault' = r.exc
            /\ fault_msg' = r.msg
            /\ args' = FactoryArgs("create_back_lay_calculator", t, kw)
            /\ last_op' = "create_back_lay_calculator"
            /\ UNCHANGED factory_frame

\* calc = CalculatorFactory.create_dutching_calculator(t, group, **kw)
CreateDutchingCalculator ==
    \E t \in TypeInputs, kw \in KwargsInputs :
        LET r == create_dutching_calculator(t, dgroup, kw)
        IN  /\ calc = NoCalc
            /\ calc' = IF r.exc = "none" THEN r.calc ELSE calc
            /\ fault' = r.exc
            /\ fault_msg' = r.msg
            /\ args' = FactoryArgs("create_dutching_calculator", t, kw)
            /\ last_op' = "create_dutching_calculator"
            /\ UNCHANGED factory_frame

\* calc = CalculatorFactory.create_accumulated_calculator(t, combo_stake,
\*     combo_fee, groups, **kw)
CreateAccumulatedCalculator ==
    \E t \in TypeInputs, kw \in KwargsInputs :
        LET r == create_accumulated_calculator(t, combo.stake, combo.fee,
                                               legs, kw)
        IN  /\ calc = NoCalc
            /\ calc' = IF r.exc = "none" THEN r.calc ELSE calc
            /\ fault' = r.exc
            /\ fault_msg' = r.msg
            /\ args' = FactoryArgs("create_accumulated_calculator", t, kw)
            /\ last_op' = "create_accumulated_calculator"
            /\ UNCHANGED factory_frame

NextFactory ==
    \/ CreateBackLayCalculator
    \/ CreateDutchingCalculator
    \/ CreateAccumulatedCalculator

SpecFactory == InitFactory /\ [][NextFactory]_vars

\* The factory followed by the solver: a group of two bets Bet() accepts, the
\* lay stake left to the solver, then create_back_lay_calculator and
\* calculate_stake on what it returned.
PairBackBets ==
    {Bet(odds, stake, fee) : odds \in OddsInputs,
                              stake \in {None, Num(5000), Num(10000)},
                              fee \in {0, 5, 100}}

PairLayBets == {Bet(odds, None, fee) : odds \in OddsInputs, fee \in {0, 5, 100}}

InitPairGroup ==
    /\ back_bet \in {b \in PairBackBets :
                        Bet_post_init(b.odds, b.stake, b.fee) = "none"}
    /\ lay_bet \in {b \in PairLayBets :
                       Bet_post_init(b.odds, b.stake, b.fee) = "none"}
    /\ calc = NoCalc
    /\ result = NoResult
    /\ fault = "none"
    /\ fault_msg = NoMessage
    /\ last_op = "start"
    /\ args = NoBet
    /\ calls = 0 /\ returned = 0 /\ stake_writes = 0
    /\ registry = EmptyRegistry
    /\ registered = FALSE
    /\ combo = NoGroup
    /\ legs = <<>>
    /\ dgroup = NoGroup
    /\ objects = NoObjects
    /\ cached_solutions = EmptyCache

NextFactorySolve ==
    \/ CreateBackLayCalculator
    \/ CalculateStake

SpecFactorySolve == InitPairGroup /\ [][NextFactorySolve]_vars

----------------------------------------------------------------------------
\* CalculatorRegistry and register_calculators.  A dictionary is a function
\* from its keys; d[key] = value is Put.
Put(d, key, value) == [k \in DOMAIN d \union {key} |->
                          IF k = key THEN value ELSE d[k]]

\* An optional list argument: None or List(<<...>>).
List(s) == [kind |-> "list", v |-> s]

\* required_params or []
or_empty(required_params) ==
    IF required_params = None THEN <<>> ELSE required_params.v

\* What a registry method leaves: its exception and the registry afterwards.
Raised(message, details, reg) ==
    [exc |-> "ConfigurationError",
     msg |-> [message |-> message, details |-> details], registry |-> reg]
Returns(reg) == [exc |-> "none", msg |-> NoMessage, registry |-> reg]

\* A registration that replaces an entry already present.
register_back_lay_overwrite(reg, calculator_type, class, required_params) ==
    Returns([reg EXCEPT
        !.back_lay_calculators = Put(@, calculator_type, class),
        !.back_lay_params = Put(@, calculator_type, or_empty(required_params))])

\* CalculatorRegistry.register_back_lay_calculator
register_back_lay_calculator(reg, calculator_type, class, required_params) ==
    IF calculator_type \in DOMAIN reg.back_lay_calculators
    THEN Raised(AlreadyRegisteredMessage,
                {reg.back_lay_calculators[calculator_type]}, reg)
    ELSE Returns([reg EXCEPT
        !.back_lay_calculators = Put(@, calculator_type, class),
        !.back_lay_params = Put(@, calculator_type, or_empty(required_params))])

\* A dutching registration that writes the parameter list into the back-lay
\* dictionary.
register_dutching_wrong_params(reg, calculator_type, class, required_params) ==
    IF calculator_type \in DOMAIN reg.dutching_calculators
    THEN Raised(AlreadyRegisteredMessage,
                {reg.dutching_calculators[calculator_type]}, reg)
    ELSE Returns([reg EXCEPT
        !.dutching_calculators = Put(@, calculator_type, class),
        !.back_lay_params = Put(@, calculator_type, or_empty(required_params))])

\* CalculatorRegistry.register_dutching_calculator
register_dutching_calculator(reg, calculator_type, class, required_params) ==
    IF calculator_type \in DOMAIN reg.dutching_calculators
    THEN Raised(AlreadyRegisteredMessage,
                {reg.dutching_calculators[calculator_type]}, reg)
    ELSE Returns([reg EXCEPT
        !.dutching_calculators = Put(@, calculator_type, class),
        !.dutching_params = Put(@, calculator_type, or_empty(required_params))])

\* CalculatorRegistry.register_accumulated_calculator
register_accumulated_calculator(reg, calculator_type, class, required_params) ==
    IF calculator_type \in DOMAIN reg.accumulated_calculators
    THEN Raised(AlreadyRegisteredMessage,
                {reg.accumulated_calculators[calculator_type]}, reg)
    ELSE Returns([reg EXCEPT
        !.accumulated_calculators = Put(@, calculator_type, class),
        !.accumulated_params = Put(@, calculator_type, or_empty(required_params))])

\* CalculatorRegistry.get_back_lay_calculator and its two siblings.
get_back_lay_calculator(reg, calculator_type) ==
    IF calculator_type \notin DOMAIN reg.back_lay_calculators
    THEN [exc |-> "ConfigurationError", value |-> None]
    ELSE [exc |-> "none", value |-> reg.back_lay_calculators[calculator_type]]

get_dutching_calculator(reg, calculator_type) ==
    IF calculator_type \notin DOMAIN reg.dutching_calculators
    THEN [exc |-> "ConfigurationError", value |-> None]
    ELSE [exc |-> "none", value |-> reg.dutching_calculators[calculator_type]]

get_accumulated_calculator(reg, calculator_type) ==
    IF calculator_type \notin DOMAIN reg.accumulated_calculators
    THEN [exc |-> "ConfigurationError", value |-> None]
    ELSE [exc |-> "none",
          value |-> reg.accumulated_calculators[calculator_type]]

\* CalculatorRegistry.get_required_params(strategy, calculator_type)
get_required_params(reg, strategy, calculator_type) ==
    LET params == CASE strategy = "back_lay" -> reg.back_lay_params
                    [] strategy = "dutching" -> reg.dutching_params
                    [] strategy = "accumulated" -> reg.accumulated_params
                    [] OTHER -> <<>>
    IN  IF strategy \notin {"back_lay", "dutching", "accumulated"}
        THEN [exc |-> "ConfigurationError", value |-> None]
        ELSE IF calculator_type \notin DOMAIN params
        THEN [exc |-> "ConfigurationError", value |-> None]
        ELSE [exc |-> "none", value |-> List(params[calculator_type])]

\* The registrations register_calculators makes, in the order it makes them.
Builtin(strategy, calculator_type, class, required_params) ==
    [strategy |-> strategy, calculator_type |-> calculator_type,
     class |-> class, required_params |-> required_params]

BuiltinRegistrations ==
    << Builtin("back_lay", "normal", "BackLayNormalCalculator", None),
       Builtin("back_lay", "freebet", "BackLayFreebetCalculator", None),
       Builtin("back_lay", "reimbursement", "BackLayReimbursementCalculator",
               List(<<"reimbursement">>)),
       Builtin("back_lay", "rollover", "BackLayRolloverCalculator",
               List(<<"bonus_amount", "remaining_rollover", "expected_rating">>)),
       Builtin("dutching", "normal", "DutchingNormalCalculator", None),
       Builtin("dutching", "freebet", "DutchingFreebetCalculator", None),
       Builtin("dutching", "reimbursement", "DutchingReimbursementCalculator",
               List(<<"reimbursement">>)),
       Builtin("dutching", "rollover", "DutchingRolloverCalculator",
               List(<<"bonus_amount", "remaining_rollover", "expected_rating">>)),
       Builtin("accumulated", "normal", "BackLayAccumulatedNormalCalculator",
               None),
       Builtin("accumulated", "freebet", "BackLayAccumulatedFreebetCalculator",
               None),
       Builtin("accumulated", "reimbursement",
               "BackLayAccumulatedReimbursementCalculator",
               List(<<"reimbursement">>)) >>

\* registry.register_<strategy>_calculator(type, class, params)
register(reg, e) ==
    CASE e.strategy = "back_lay" ->
           register_back_lay_calculator(reg, e.calculator_type, e.class,
                                        e.required_params)
      [] e.strategy = "dutching" ->
           register_dutching_calculator(reg, e.calculator_type, e.class,
                                        e.required_params)
      [] e.strategy = "accumulated" ->
           register_accumulated_calculator(reg, e.calculator_type, e.class,
                                           e.required_params)

\* The statements of register_calculators from the i-th registration on: the
\* first exception ends the function, the registrations made before it stay.
RECURSIVE register_from(_, _)
register_from(reg, i) ==
    IF i > Len(BuiltinRegistrations) THEN Returns(reg)
    ELSE LET r == register(reg, BuiltinRegistrations[i])
         IN  IF r.exc # "none" THEN r ELSE register_from(r.registry, i + 1)

\* register_calculators without the flag: every call registers again.
register_calculators_unguarded(reg, flag) ==
    LET r == register_from(reg, 1)
    IN  [exc |-> r.exc, msg |-> r.msg, registry |-> r.registry,
         registered |-> (flag \/ r.exc = "none")]

\* register_calculators(): nothing when the flag is set; else the eleven
\* registrations, and the flag is set when all of them returned.
register_calculators(reg, flag) ==
    IF flag
    THEN [exc |-> "none", msg |-> NoMessage, registry |-> reg,
          registered |-> flag]
    ELSE LET r == register_from(reg, 1)
         IN  [exc |-> r.exc, msg |-> r.msg, registry |-> r.registry,
              registered |-> (r.exc = "none")]

\* Registrations a caller makes by hand: the name of a built-in type and the
\* name the tests use, each with one of two classes.
RegTypeInputs == {"freebet", "test_normal"}
RegClassInputs ==
    {[class |-> "BackLayNormalCalculator", required_params |-> None],
     [class |-> "TestCalculator",
      required_params |-> List(<<"reimbursement">>)]}

InitRegistry == Init

registry_frame == <<bets, calc, result, returned, stake_writes,
                    combo, legs, dgroup, engine>>

RegistryArgs(op, calculator_type, c) ==
    [op |-> op, calculator_type |-> calculator_type, class |-> c.class,
     required_params |-> c.required_params]

\* get_registry().register_back_lay_calculator(t, class, params)
RegisterBackLayCalculator ==
    \E t \in RegTypeInputs, c \in RegClassInputs :
        LET r == register_back_lay_calculator(registry, t, c.class,
                                              c.required_params)
        IN  /\ registry' = r.registry
            /\ fault' = r.exc
            /\ fault_msg' = r.msg
            /\ args' = RegistryArgs("register_back_lay_calculator", t, c)
            /\ last_op' = "register_back_lay_calculator"
            /\ UNCHANGED <<registry_frame, registered, calls>>

\* get_registry().register_dutching_calculator(t, class, params)
RegisterDutchingCalculator ==
    \E t \in RegTypeInputs, c \in RegClassInputs :
        LET r == register_dutching_calculator(registry, t, c.class,
                                              c.required_params)
        IN  /\ registry' = r.registry
            /\ fault' = r.exc
            /\ fault_msg' = r.msg
            /\ args' = RegistryArgs("register_dutching_calculator", t, c)
            /\ last_op' = "register_dutching_calculator"
            /\ UNCHANGED <<registry_frame, registered, calls>>

\* get_registry().register_accumulated_calculator(t, class, params)
RegisterAccumulatedCalculator ==
    \E t \in RegTypeInputs, c \in RegClassInputs :
        LET r == register_accumulated_calculator(registry, t, c.class,
                                                 c.required_params)
        IN  /\ registry' = r.registry
            /\ fault' = r.exc
            /\ fault_msg' = r.msg
            /\ args' = RegistryArgs("register_accumulated_calculator", t, c)
            /\ last_op' = "register_accumulated_calculator"
            /\ UNCHANGED <<registry_frame, registered, calls>>

\* register_calculators()
RegisterCalculators ==
    LET r == register_calculators(registry, registered)
    IN  /\ calls < MaxCalls
        /\ registry' = r.registry
        /\ registered' = r.registered
        /\ fault' = r.exc
        /\ fault_msg' = r.msg
        /\ args' = NoBet
        /\ last_op' = "register_calculators"
        /\ calls' = calls + 1
        /\ UNCHANGED registry_frame

NextRegistry ==
    \/ RegisterBackLayCalculator
    \/ RegisterDutchingCalculator
    \/ RegisterAccumulatedCalculator
    \/ RegisterCalculators

SpecRegistry == InitRegistry /\ [][NextRegistry]_vars

----------------------------------------------------------------------------
\* The accumulated calculators: a combo bet over the legs of a LegChain and
\* one lay bet per leg.  The stakes equalise the n + 1 outcomes of the chain;
\* they are solved from the last leg back and reproduce the stakes of the
\* two-pick and four-pick tests.
ComboStakeInputs == {1000}
ComboFeeInputs == {0, 5}
LegBackOddsInputs == {200, 300}
LegLayInputs == {Bet(300, None, 0), Bet(240, None, 0),
                 Bet(105, None, 5), Bet(102, None, 12)}
AccKinds == {"normal", "freebet", "reimbursement"}
AccReimbursementInputs == {500}

\* The promotion parameters a caller passes to a constructor.
Kwargs(reimbursement) ==
    [reimbursement |-> reimbursement, bonus_amount |-> None,
     remaining_rollover |-> None, expected_rating |-> None]

\* The product of the back odds of legs 1..k.
RECURSIVE back_odds_product(_, _)
back_odds_product(groups, k) ==
    IF k = 0 THEN Rat(1, 1)
    ELSE RMul(back_odds_product(groups, k - 1),
              Norm(groups[k].back.odds, 100))

\* What the last lay bet has to cover, in 1/100 cent: the return of the combo
\* when every leg wins, net of the combo fee, less what the variant gives
\* back when the combo loses.
accumulated_return(c, cmb, groups) ==
    LET po == back_odds_product(groups, Len(groups))
        net == Rat(cmb.stake * (100 - cmb.fee), 1)
    IN  CASE c.kind = "normal" -> RMul(net, po)
          [] c.kind = "freebet" -> RMul(net, RSub(po, Rat(1, 1)))
          [] c.kind = "reimbursement" ->
               RSub(RMul(net, po), Rat(100 * c.reimbursement, 1))

\* The exact lay stake of leg k, in cents: the last leg covers the return of
\* the combo, an earlier leg covers what the lay bet of the next leg wins.
RECURSIVE accumulated_lay_stake(_, _, _, _)
accumulated_lay_stake(c, cmb, groups, k) ==
    LET lb == groups[k].lay
    IN  IF k = Len(groups)
        THEN RMul(accumulated_return(c, cmb, groups),
                  Norm(1, lb.odds - lb.fee))
        ELSE RMul(accumulated_lay_stake(c, cmb, groups, k + 1),
                  Norm(100 - groups[k + 1].lay.fee, lb.odds - lb.fee))

\* The list of a calculate_stake that reports the legs last leg first.
accumulated_lay_bets_reversed(c, cmb, groups) ==
    [k \in 1..Len(groups) |->
        LET j == Len(groups) + 1 - k
            st == round2(accumulated_lay_stake(c, cmb, groups, j))
        IN  [lay_stake |-> st, risk |-> Risk(st, groups[j].lay.odds)]]

\* result["accumulated_lay_bets"]: lay stake and liability of every leg, each
\* rounded to 2 decimals, in leg order.
accumulated_lay_bets(c, cmb, groups) ==
    [k \in 1..Len(groups) |->
        LET st == round2(accumulated_lay_stake(c, cmb, groups, k))
        IN  [lay_stake |-> st, risk |-> Risk(st, groups[k].lay.odds)]]

\* BackLayAccumulated*Calculator.calculate_stake()
Accumulated_calculate_stake(c, cmb, groups) ==
    [accumulated_lay_bets |-> accumulated_lay_bets(c, cmb, groups)]

accumulated_frame == <<back_bet, lay_bet, counters, fault_msg, registry,
                       registered, dgroup, engine>>

\* combo_stake, combo_fee = ...
NewCombo ==
    \E stake \in ComboStakeInputs, fee \in ComboFeeInputs :
        /\ combo = NoGroup
        /\ combo' = Combo(stake, fee)
        /\ fault' = "none"
        /\ last_op' = "combo"
        /\ UNCHANGED <<accumulated_frame, legs, calc, result, args>>

\* groups.append(BackLayGroup(Bet(odds, fee=combo_fee), Bet(odds, fee)))
AddLeg ==
    \E odds \in LegBackOddsInputs, lay \in LegLayInputs :
        /\ combo # NoGroup
        /\ calc = NoCalc
        /\ Len(legs) < MaxLegs
        /\ legs' = Append(legs, BackLayGroup(Bet(odds, None, combo.fee), lay))
        /\ fault' = "none"
        /\ last_op' = "leg"
        /\ UNCHANGED <<accumulated_frame, combo, calc, result, args>>

\* calc = BackLayAccumulated<Kind>Calculator(combo_stake, combo_fee, groups
\*                                           [, reimbursement])
NewAccumulatedCalculator ==
    \E kind \in AccKinds, r \in AccReimbursementInputs :
        LET c == Accumulated_construct(kind, combo.stake, combo.fee, legs,
                                       Kwargs(Num(r)))
        IN  /\ legs # <<>>
            /\ calc = NoCalc
            /\ calc' = IF c.exc = "none" THEN c.calc ELSE calc
            /\ fault' = c.exc
            /\ last_op' = "Calculator"
            /\ UNCHANGED <<accumulated_frame, combo, legs, result, args>>

\* result = calc.calculate_stake()
AccumulatedCalculateStake ==
    /\ calc # NoCalc
    /\ result = NoResult
    /\ result' = Accumulated_calculate_stake(calc, combo, legs)
    /\ fault' = "none"
    /\ last_op' = "calculate_stake"
    /\ UNCHANGED <<accumulated_frame, combo, legs, calc, args>>

NextAccumulated ==
    \/ NewCombo
    \/ AddLeg
    \/ NewAccumulatedCalculator
    \/ AccumulatedCalculateStake

SpecAccumulated == Init /\ [][NextAccumulated]_vars

----------------------------------------------------------------------------
\* The dutching calculators: a main back bet with a known stake and one hedge
\* back bet per other outcome.  The promotion variants change the balance of
\* the main back bet as they do in the back-lay calculators; the stakes
\* reproduce the stakes and balances of the dutching tests.
MainStakeInputs == {Num(1000)}
MainOddsInputs == {200, 300}
MainFeeInputs == {0, 5}
HedgeInputs == {Bet(170, None, 0), Bet(1500, None, 0), Bet(140, None, 5)}
DutchingKwargsInputs ==
    {[reimbursement |-> Num(750), bonus_amount |-> Num(750),
      remaining_rollover |-> Num(8000), expected_rating |-> Num(92)]}

\* The balance of the main back bet when it wins and what it costs when it
\* loses, in 1/Scale cent, no hedge stake counted: the constants of the two
\* balance expressions of the back-lay calculator of the same variant.
dutching_subs(c, group) == get_subs(c, group.back, group.bets[1])
main_wins(c, group) == back_balance_expr(c.kind, dutching_subs(c, group)).c0
main_loses(c, group) == lay_balance_expr(c.kind, dutching_subs(c, group)).c0

\* What hedge bet i returns per cent staked when it wins, net of its fee, in
\* 1/Scale cent.
net_odds(bet) == bet.odds * (100 - bet.fee)

\* The exact stake of hedge bet i, in cents: its net return equals what the
\* main back bet wins more than it loses.
dutching_stake(c, group, i) ==
    Norm(main_wins(c, group) - main_loses(c, group), net_odds(group.bets[i]))

\* The balance left when the main back bet wins and hedge bets 1..k lose
\* their exact stakes, in cents.
RECURSIVE dutching_balance(_, _, _)
dutching_balance(c, group, k) ==
    IF k = 0 THEN Norm(main_wins(c, group), Scale)
    ELSE RSub(dutching_balance(c, group, k - 1), dutching_stake(c, group, k))

\* Dutching*Calculator.calculate_stake(): the stake of every hedge bet in
\* input order (stakes[i + 1] is result["dutching_bet_i_stake"]) and the
\* overall balance, each rounded to 2 decimals.
Dutching_calculate_stake(c, group) ==
    [stakes |-> [i \in 1..Len(group.bets) |->
                    round2(dutching_stake(c, group, i))],
     overall_balance |-> round2(dutching_balance(c, group, Len(group.bets)))]

dutching_frame == <<back_bet, lay_bet, counters, fault_msg, registry,
                    registered, combo, legs, engine>>

\* dutching_group = DutchingGroup(main_back_bet, [dutching_bet_0])
NewDutchingGroup ==
    \E stake \in MainStakeInputs, odds \in MainOddsInputs,
       fee \in MainFeeInputs, hedge \in HedgeInputs :
        /\ dgroup = NoGroup
        /\ dgroup' = DutchingGroup(Bet(odds, stake, fee), <<hedge>>)
        /\ fault' = "none"
        /\ last_op' = "DutchingGroup"
        /\ UNCHANGED <<dutching_frame, calc, result, args>>

\* db = [dutching_bet_0, dutching_bet_1, ...]
AddHedge ==
    \E hedge \in HedgeInputs :
        /\ dgroup # NoGroup
        /\ calc = NoCalc
        /\ Len(dgroup.bets) < MaxHedges
        /\ dgroup' = [dgroup EXCEPT !.bets = Append(@, hedge)]
        /\ fault' = "none"
        /\ last_op' = "hedge"
        /\ UNCHANGED <<dutching_frame, calc, result, args>>

\* calc = Dutching<Kind>Calculator(dutching_group[, parameters])
NewDutchingCalculator ==
    \E kind \in Kinds, kw \in DutchingKwargsInputs :
        LET c == Dutching_construct(kind, dgroup, kw)
        IN  /\ dgroup # NoGroup
            /\ calc = NoCalc
            /\ calc' = IF c.exc = "none" THEN c.calc ELSE calc
            /\ fault' = c.exc
            /\ last_op' = "Calculator"
            /\ UNCHANGED <<dutching_frame, dgroup, result, args>>

\* result = calc.calculate_stake()
DutchingCalculateStake ==
    /\ calc # NoCalc
    /\ result = NoResult
    /\ result' = Dutching_calculate_stake(calc, dgroup)
    /\ fault' = "none"
    /\ last_op' = "calculate_stake"
    /\ UNCHANGED <<dutching_frame, dgroup, calc, args>>

NextDutching ==
    \/ NewDutchingGroup
    \/ AddHedge
    \/ NewDutchingCalculator
    \/ DutchingCalculateStake

SpecDutching == Init /\ [][NextDutching]_vars

----------------------------------------------------------------------------
\* CalculationEngine: the equation solver with its cache of solutions.
\* An expression is c0 + c1*lay_stake, in 1/Scale cent; an object that
\* implements MathExpressionInterface without being a SymPyExpression has no
\* such form.
SymPyExpression(expr) ==
    [type |-> "SymPyExpression", c0 |-> expr.c0, c1 |-> expr.c1]

OtherExpression == [type |-> "MathExpressionInterface"]

\* ExpressionBuilder.build_normal_back_balance on the numbers of two bets.
build_normal_back_balance(bb, lb) ==
    SymPyExpression(
        [c0 |-> bb.stake.v * (bb.odds * (100 - bb.fee) - Scale),
         c1 |-> -(100 * (lb.odds - 100))])

\* ExpressionBuilder.build_normal_lay_balance, likewise.
build_normal_lay_balance(bb, lb) ==
    SymPyExpression(
        [c0 |-> -(Scale * bb.stake.v),
         c1 |-> 100 * (100 - lb.fee)])

EngineBackBets == {Bet(200, Num(10000), 5), Bet(200, Num(5000), 5)}
EngineLayBets == {Bet(210, None, 2)}
ExpressionInputs ==
    {build_normal_back_balance(bb, lb) : bb \in EngineBackBets,
                                         lb \in EngineLayBets}
    \union {build_normal_lay_balance(bb, lb) : bb \in EngineBackBets,
                                               lb \in EngineLayBets}
    \union {OtherExpression}
VariableInputs == {"lay_stake", "back_stake"}

NoSolutionMessage == "No solution found"
UnsupportedMessage == "Unsupported expression types"
FailedToSolveMessage == "Failed to solve equation system for "

\* SymbolicMathHelper.solve_equation(Eq(expr, 0), symbol): the first solution
\* sympy finds, an error when it finds none (the equation has no lay_stake
\* term, or the symbol does not occur in it).
solve_equation(expr, variable) ==
    IF variable = "lay_stake" /\ expr.c1 # 0
    THEN [exc |-> "none", value |-> Norm(-expr.c0, expr.c1)]
    ELSE [exc |-> "MatchedBettingError", value |-> NoResult]

\* SymPyExpression.solve_for(variable)
solve_for(expr, variable) == solve_equation(expr, variable)

\* cache_key = f"{id(back_balance_expr)}_{id(lay_balance_expr)}_{variable_to_solve}"
cache_key(id_back, id_lay, variable_to_solve) ==
    <<id_back, id_lay, variable_to_solve>>

\* CalculationError(message, details), raised by the engine.
CalculationError(message, details, cache) ==
    [exc |-> "CalculationError",
     msg |-> [message |-> message, details |-> details],
     value |-> NoResult, cache |-> cache]

\* The try block of create_equation_system: what an engine without a cache
\* does with the two expressions.
solve_system(cache, key, back_expr, lay_expr, variable_to_solve) ==
    IF /\ back_expr.type = "SymPyExpression"
       /\ lay_expr.type = "SymPyExpression"
    THEN LET equation == [c0 |-> back_expr.c0 - lay_expr.c0,
                          c1 |-> back_expr.c1 - lay_expr.c1]
             solution == solve_for(equation, variable_to_solve)
         IN  IF solution.exc = "none"
             THEN [exc |-> "none", msg |-> NoMessage,
                   value |-> solution.value,
                   cache |-> Put(cache, key, solution.value)]
             ELSE CalculationError(FailedToSolveMessage \o variable_to_solve,
                                   {NoSolutionMessage}, cache)
    ELSE CalculationError(FailedToSolveMessage \o variable_to_solve,
                          {UnsupportedMessage}, cache)

\* CalculationEngine.create_equation_system(back_balance_expr,
\* lay_balance_expr, variable_to_solve) for the objects that live at the two
\* ids: the exception, what is returned and the cache afterwards.
create_equation_system(cache, objs, id_back, id_lay, variable_to_solve) ==
    LET key == cache_key(id_back, id_lay, variable_to_solve)
    IN  IF key \in DOMAIN cache
        THEN [exc |-> "none", msg |-> NoMessage, value |-> cache[key],
              cache |-> cache]
        ELSE solve_system(cache, key, objs[id_back], objs[id_lay],
                          variable_to_solve)

engine_frame == <<bets, calc, returned, stake_writes, registry, registered,
                  combo, legs, dgroup>>

LiveIds == {i \in 1..MaxIds : objects[i] # NoObject}

\* expr = builder.build_...(...): a new object, at an id no live object has.
NewExpression ==
    \E i \in 1..MaxIds, e \in ExpressionInputs :
        /\ objects[i] = NoObject
        /\ objects' = [objects EXCEPT ![i] = e]
        /\ fault' = "none"
        /\ last_op' = "expression"
        /\ UNCHANGED <<engine_frame, cached_solutions, result, args, calls,
                       fault_msg>>

\* del expr: the last reference goes, the object is collected and its id can
\* be given to a new object.
DiscardExpression ==
    \E i \in LiveIds :
        /\ objects' = [objects EXCEPT ![i] = NoObject]
        /\ fault' = "none"
        /\ last_op' = "del"
        /\ UNCHANGED <<engine_frame, cached_solutions, result, args, calls,
                       fault_msg>>

\* solution = engine.create_equation_system(back, lay, variable)
CreateEquationSystem ==
    \E b \in LiveIds, l \in LiveIds, v \in VariableInputs :
        LET r == create_equation_system(cached_solutions, objects, b, l, v)
        IN  /\ calls < MaxCalls
            /\ cached_solutions' = r.cache
            /\ result' = r.value
            /\ fault' = r.exc
            /\ fault_msg' = r.msg
            /\ args' = [back |-> b, lay |-> l, variable |-> v]
            /\ last_op' = "create_equation_system"
            /\ calls' = calls + 1
            /\ UNCHANGED <<engine_frame, objects>>

\* engine.clear_cache()
ClearCache ==
    /\ cached_solutions' = EmptyCache
    /\ fault' = "none"
    /\ last_op' = "clear_cache"
    /\ UNCHANGED <<engine_frame, objects, result, args, calls, fault_msg>>

NextEngine ==
    \/ NewExpression
    \/ DiscardExpression
    \/ CreateEquationSystem
    \/ ClearCache

SpecEngine == Init /\ [][NextEngine]_vars

----------------------------------------------------------------------------
\* The closed-form calculators of back_lay_normal_calculator.py,
\* back_lay_freebet_calculator.py, back_lay_reimbursement_calculator.py and
\* back_lay_rollover_calculator.py: the lay stake is a quotient of numbers,
\* computed without a symbolic solver.

\* raw_lay_stake: numerator and denominator of the quotient, in cents.  With
\* odds in hundredths and fees in percent, lb.odds - lb.fee/100 is
\* (lb.odds - lb.fee)/100.
raw_lay_stake(c, bb, lb) ==
    LET numerator ==
            CASE c.kind = "normal" -> bb.stake.v * bb.odds * (100 - bb.fee)
              [] c.kind = "freebet" ->
                   bb.stake.v * (bb.odds - 100) * (100 - bb.fee)
              [] c.kind = "reimbursement" ->
                   bb.stake.v * bb.odds * (100 - bb.fee)
                       - Scale * c.reimbursement
              [] c.kind = "rollover" ->
                   (bb.stake.v + c.bonus_amount) * bb.odds * (100 - bb.fee)
                       - 100 * (c.remaining_rollover - bb.stake.v
                                    - c.bonus_amount)
                             * (100 - c.expected_rating)
    IN  [num |-> numerator, den |-> 100 * (lb.odds - lb.fee)]

\* calculate_stake(self) of a closed-form calculator: None in the arithmetic
\* raises TypeError, a zero divisor ZeroDivisionError; otherwise the rounded
\* quotient is written to the lay bet and returned with the liability.
closed_form_calculate_stake(c, bb, lb) ==
    IF bb.stake = None
    THEN [exc |-> "TypeError", lb |-> lb, calc |-> c, result |-> NoResult]
    ELSE LET raw == raw_lay_stake(c, bb, lb)
         IN  IF raw.den = 0
             THEN [exc |-> "ZeroDivisionError", lb |-> lb, calc |-> c,
                   result |-> NoResult]
             ELSE LET stake == round2(Rat(raw.num, raw.den))
                      risk == Risk(stake, lb.odds)
                  IN  [exc |-> "none", lb |-> [lb EXCEPT !.stake = stake],
                       calc |-> [c EXCEPT !.risk = risk],
                       result |-> [lay_stake |-> stake, risk |-> risk]]

\* result = <closed-form calculator of the variant of calc, on the same bets
\* and promotion parameters>.calculate_stake()
ClosedFormCalculateStake ==
    LET r == closed_form_calculate_stake(calc, back_bet, lay_bet)
    IN  /\ calc # NoCalc
        /\ calls < MaxCalls
        /\ lay_bet' = r.lb
        /\ calc' = r.calc
        /\ result' = r.result
        /\ fault' = r.exc
        /\ last_op' = "closed_form_calculate_stake"
        /\ calls' = calls + 1
        /\ UNCHANGED <<back_bet, args, returned, stake_writes, ext>>

NextClosedForm ==
    \/ NewBackBet
    \/ NewLayBet
    \/ NewSimpleCalculator
    \/ NewReimbursementCalculator
    \/ NewRolloverCalculator
    \/ ClosedFormCalculateStake

SpecClosedForm == Init /\ [][NextClosedForm]_vars

----------------------------------------------------------------------------
\* Properties.

\* The last operation was a calculate_stake call that returned.
Returned == last_op = "calculate_stake" /\ fault = "none"

\* The two balance expressions of the current calculator on the current bets.
CurSubs == get_subs(calc, back_bet, lay_bet)
CurBack == back_balance_expr(calc.kind, CurSubs)
CurLay == lay_balance_expr(calc.kind, CurSubs)

\* |balance_back(x) - balance_lay(x)| at the lay stake written to the bet, in
\* 1/Scale cent.
Imbalance == Abs(Eval(CurBack, lay_bet.stake.v) - Eval(CurLay, lay_bet.stake.v))

\* A Normal calculator has just returned a real lay stake.
NormalSolved == Returned /\ calc.kind = "normal" /\ IsNum(lay_bet.stake)

\* C1 (as claimed): for every Normal PairGroup with valid bets the rounded lay
\* stake x* leaves |balance_back(x*) - balance_lay(x*)| <= 0.01, that is one
\* cent.
C1_BalancedWithinOneCent == NormalSolved => Imbalance <= Scale

\* C1 (amended): the rounded lay stake x* of a Normal PairGroup is within half
\* a cent of the exact equalising stake, so |balance_back(x*) -
\* balance_lay(x*)| <= 0.005 * (o - f/100), whenever the stake returned is a
\* real number.
C1_BalancedWithinHalfCentOfStake ==
    NormalSolved => 2 * Imbalance <= 100 * (lay_bet.odds - lay_bet.fee)

\* C1 witness: a Normal calculator returned a stake that rounding moved off
\* the exact solution, and the two balances still differ by at most a cent.
C1_Witness == NormalSolved /\ Imbalance > 0 /\ Imbalance <= Scale

\* The Rollover calculator has just returned and the remaining rollover is
\* smaller than back stake plus bonus.
SmallRollover ==
    /\ Returned
    /\ calc.kind = "rollover"
    /\ calc.remaining_rollover < back_bet.stake.v + calc.bonus_amount

\* C2: in the Rollover variant, whenever remaining_rollover < back stake +
\* bonus_amount the penalty subtracted from the back balance is exactly 0 and
\* the lay stake is the one solved with no penalty.
C2_PenaltyFlooredAtZero ==
    SmallRollover =>
        /\ rollover_penalty(CurSubs) = 0
        /\ result.lay_stake =
             round2(Solve([CurBack EXCEPT !.c0 = @ + rollover_penalty(CurSubs)],
                          CurLay))

\* C3: a Reimbursement calculator with reimbursement < 0 or reimbursement >
\* back stake is refused at construction, so no such calculator ever exists.
C3_ReimbursementRangeChecked ==
    (calc # NoCalc /\ calc.kind = "reimbursement" /\ back_bet.stake # None) =>
        (0 <= calc.reimbursement /\ calc.reimbursement <= back_bet.stake.v)

\* The arguments of the last Bet(...) call break a range of the Bet.
BadBetArgs ==
    \/ args.odds < 100
    \/ (args.stake # None /\ args.stake.v <= 0)
    \/ args.fee < 0
    \/ args.fee > 100

\* The last Bet(...) call produced the Bet of its arguments.
BetConstructed ==
    \/ (lay_bet # NoBet /\ lay_bet = args)
    \/ (lay_bet = NoBet /\ back_bet = args)

\* C4: Bet(...) with odds < 1, a present stake <= 0 or a fee outside [0,100]
\* fails with ValidationError and yields no Bet; every other combination
\* constructs the Bet.
C4_BetValidationError ==
    last_op = "Bet" =>
        IF BadBetArgs
        THEN fault = "ValidationError" /\ ~BetConstructed
        ELSE fault = "none" /\ BetConstructed

\* The invariant of a Bet.
BetInvariant(b) ==
    /\ b.odds >= 100
    /\ (b.stake # None => (IsNum(b.stake) /\ b.stake.v > 0))
    /\ 0 <= b.fee /\ b.fee <= 100

\* C5: odds >= 1, stake > 0 if present and fee in [0,100] hold of every Bet in
\* every reachable state, the lay bet after a solver wrote its stake included.
C5_BetInvariantAlways ==
    \A b \in {back_bet, lay_bet} : b # NoBet => BetInvariant(b)

\* C6: on validated bets (the back stake known) the pairwise equation has
\* exactly one real solution: calculate_stake raises nothing and returns a
\* real lay stake.
C6_UniqueRealSolution ==
    (last_op = "calculate_stake" /\ back_bet.stake # None) =>
        (fault = "none" /\ result # NoResult /\ IsNum(result.lay_stake))

\* C7 (as claimed): over any sequence of calculate_stake calls the stake of a
\* Bet is written at most once by a solver.
C7_WrittenAtMostOnce == stake_writes <= 1

\* C7 (amended): every calculate_stake call that returns writes the lay stake
\* exactly once, a later call overwriting the earlier value: the solver writes
\* are as many as the returned calls, and after each the stake is that call's
\* own rounded solution.
C7_OneWritePerReturnedCall ==
    /\ stake_writes = returned
    /\ Returned => lay_bet.stake = round2(Solve(CurBack, CurLay))

\* C7 witness: a second solver write has replaced a stake that was present.
C7_Witness == Returned /\ stake_writes >= 2 /\ IsNum(lay_bet.stake)

\* C8: a calculate_stake call that returns leaves the solved stake on the lay
\* bet, equal to the returned lay_stake (the solution rounded to 2 decimals),
\* and changes neither the back bet nor the lay bet's odds and fee.
C8_WriteBackFrame ==
    [][(last_op' = "calculate_stake" /\ fault' = "none") =>
          /\ lay_bet'.stake # None
          /\ lay_bet'.stake = result'.lay_stake
          /\ result'.lay_stake = (round2(Solve(CurBack, CurLay)))'
          /\ back_bet' = back_bet
          /\ lay_bet'.odds = lay_bet.odds
          /\ lay_bet'.fee = lay_bet.fee]_vars

\* C8 witness: a call returned a real stake, which the lay bet now holds.
C8_Witness ==
    Returned /\ IsNum(result.lay_stake) /\ lay_bet.stake = result.lay_stake

\* C9: the mapping calculate_stake returns holds back_balance and lay_balance
\* besides lay_stake and risk, and the two balances are equal.
C9_BalancesReported ==
    result # NoResult =>
        /\ {"lay_stake", "risk", "back_balance", "lay_balance"}
             \subseteq DOMAIN result
        /\ result.back_balance = result.lay_balance

\* C10: calculate_stake(apply_result_to_bet=False) returns what the default
\* mode returns for the same inputs.
C10_PureModeReturnsSame ==
    last_op = "calculate_stake_pure" =>
        /\ fault = "none"
        /\ result = calculate_stake(calc, back_bet, lay_bet).result

----------------------------------------------------------------------------
\* Properties of the factory.

FactoryOps == {"create_back_lay_calculator", "create_dutching_calculator",
               "create_accumulated_calculator"}

\* The types a create_* method knows, with their required parameters.
factory_map(op) ==
    CASE op = "create_back_lay_calculator" -> back_lay_calculator_map
      [] op = "create_dutching_calculator" -> dutching_calculator_map
      [] op = "create_accumulated_calculator" -> accumulated_calculator_map

\* The last operation was a factory call, with a type the method does not
\* know / with a type it knows.
UnknownTypeCall ==
    last_op \in FactoryOps /\ args.calculator_type \notin DOMAIN factory_map(last_op)
KnownTypeCall ==
    last_op \in FactoryOps /\ args.calculator_type \in DOMAIN factory_map(last_op)

\* The required parameters the last factory call left out.
MissingOfCall ==
    {p \in Range(factory_map(last_op)[args.calculator_type]) :
        args.kwargs[p] = None}

\* C11: each create_* method called with a type that is not one of its known
\* types raises ConfigurationError reporting that the type is not registered,
\* constructs no calculator and modifies no Bet.
C11_UnknownTypeNotRegistered ==
    [][UnknownTypeCall' =>
          /\ fault' = "ConfigurationError"
          /\ fault_msg'.message = NotRegisteredMessage
          /\ calc' = calc
          /\ UNCHANGED <<back_bet, lay_bet, dgroup, legs>>]_vars

\* C12: a create_* call for a known type with a required parameter left out
\* raises ConfigurationError naming every missing parameter and constructs
\* nothing, whatever the values of the parameters that were supplied (an
\* expected_rating out of range included): the check precedes the constructor.
C12_MissingParamsReported ==
    (KnownTypeCall /\ MissingOfCall # {}) =>
        /\ fault = "ConfigurationError"
        /\ fault_msg.message = MissingParamsMessage
        /\ fault_msg.details = MissingOfCall
        /\ calc = NoCalc

\* C12 witness: rollover asked for with two parameters left out and the rating
\* supplied out of range; both names are reported.
C12_Witness ==
    /\ last_op = "create_back_lay_calculator"
    /\ args.calculator_type = "rollover"
    /\ args.kwargs.expected_rating = Num(110)
    /\ fault = "ConfigurationError"
    /\ fault_msg.details = {"bonus_amount", "remaining_rollover"}

\* The last operation asked the factory for a back-lay Rollover calculator
\* and supplied its three parameters.
RolloverAsked ==
    /\ last_op = "create_back_lay_calculator"
    /\ args.calculator_type = "rollover"
    /\ MissingOfCall = {}

C16_BackStakeCheckedAtConstruction ==
    /\ (calc # NoCalc => back_bet.stake # None)
    /\ ((last_op = "Calculator" /\ back_bet.stake = None) =>
            fault = "ValidationError")
    /\ (last_op = "calculate_stake" => fault = "none")

----------------------------------------------------------------------------
\* Properties of the registry.

RegisterOps == {"register_back_lay_calculator", "register_dutching_calculator",
                "register_accumulated_calculator"}

StrategyOf(op) ==
    CASE op = "register_back_lay_calculator" -> "back_lay"
      [] op = "register_dutching_calculator" -> "dutching"
      [] op = "register_accumulated_calculator" -> "accumulated"

\* The class dictionary of a strategy, and what the getters return for a type.
ClassesOf(reg, strategy) ==
    CASE strategy = "back_lay" -> reg.back_lay_calculators
      [] strategy = "dutching" -> reg.dutching_calculators
      [] strategy = "accumulated" -> reg.accumulated_calculators

GetCalculator(reg, strategy, t) ==
    CASE strategy = "back_lay" -> get_back_lay_calculator(reg, t)
      [] strategy = "dutching" -> get_dutching_calculator(reg, t)
      [] strategy = "accumulated" -> get_accumulated_calculator(reg, t)

\* C13: registering a type already registered for the same strategy raises
\* ConfigurationError and leaves the registry unchanged: the getters return
\* the first class and the first required-parameter list afterwards.
C13_DoubleRegistrationRejected ==
    [][(/\ last_op' \in RegisterOps
        /\ args'.calculator_type
             \in DOMAIN ClassesOf(registry, StrategyOf(last_op'))) =>
          LET strategy == StrategyOf(last_op')
              t == args'.calculator_type
          IN  /\ fault' = "ConfigurationError"
              /\ fault_msg'.message = AlreadyRegisteredMessage
              /\ registry' = registry
              /\ GetCalculator(registry', strategy, t).exc = "none"
              /\ GetCalculator(registry', strategy, t)
                   = GetCalculator(registry, strategy, t)
              /\ get_required_params(registry', strategy, t)
                   = get_required_params(registry, strategy, t)]_vars

\* C13 witness: a second registration with another class and another
\* parameter list was refused, and the getters still return the first ones.
C13_Witness ==
    /\ last_op = "register_back_lay_calculator"
    /\ fault = "ConfigurationError"
    /\ get_back_lay_calculator(registry, args.calculator_type).exc = "none"
    /\ get_back_lay_calculator(registry, args.calculator_type).value
         # args.class
    /\ get_required_params(registry, "back_lay", args.calculator_type).value
         # List(or_empty(args.required_params))

\* The registry holds every built-in type: normal, freebet, reimbursement and
\* rollover for back_lay and dutching, the first three for accumulated.
HoldsBuiltins(reg) ==
    \A i \in DOMAIN BuiltinRegistrations :
        LET e == BuiltinRegistrations[i]
        IN  /\ GetCalculator(reg, e.strategy, e.calculator_type).exc = "none"
            /\ get_required_params(reg, e.strategy, e.calculator_type).exc
                 = "none"

\* The name of a built-in type is registered for its strategy.
BuiltinNameTaken(reg) ==
    \E i \in DOMAIN BuiltinRegistrations :
        BuiltinRegistrations[i].calculator_type
            \in DOMAIN ClassesOf(reg, BuiltinRegistrations[i].strategy)

----------------------------------------------------------------------------
\* Properties of the accumulated calculators.

\* An accumulated calculator has just returned its list.
AccSolved ==
    /\ last_op = "calculate_stake"
    /\ fault = "none"
    /\ calc # NoCalc
    /\ calc.strategy = "accumulated"
    /\ result # NoResult

\* The lay stake returned for leg k, in cents.
AccStake(k) == result.accumulated_lay_bets[k].lay_stake.v

\* What the lay bets of legs 1..k cost when they all lose, in 1/100 cent.
RECURSIVE LaysLost(_)
LaysLost(k) ==
    IF k = 0 THEN 0
    ELSE LaysLost(k - 1) + AccStake(k) * (legs[k].lay.odds - 100)

\* The balance of the combo bet alone when it loses, in 1/100 cent.
ComboLoses ==
    CASE calc.kind = "normal" -> -(100 * combo.stake)
      [] calc.kind = "freebet" -> 0
      [] calc.kind = "reimbursement" ->
           -(100 * (combo.stake - calc.reimbursement))

\* The balance of the combo bet alone when every leg wins: it pays the
\* product of the back odds net of the combo fee.
ComboWins ==
    LET po == back_odds_product(legs, Len(legs))
    IN  IF calc.kind = "freebet"
        THEN RMul(Rat(combo.stake * (100 - combo.fee), 1),
                  RSub(po, Rat(1, 1)))
        ELSE RSub(RMul(Rat(combo.stake * (100 - combo.fee), 1), po),
                  Rat(100 * combo.stake, 1))

\* The net balance of outcome k at the returned stakes, in 1/100 cent:
\* outcome k <= n is "the combo loses first at leg k", outcome n + 1 is
\* "every leg wins".
OutcomeBalance(k) ==
    IF k <= Len(legs)
    THEN Rat(ComboLoses + AccStake(k) * (100 - legs[k].lay.fee)
                 - LaysLost(k - 1), 1)
    ELSE RSub(ComboWins, Rat(LaysLost(Len(legs)), 1))

\* What rounding the stakes of legs k and k + 1 to the cent can move the
\* balances of outcomes k and k + 1 apart, in 1/200 cent; the stake of the
\* last leg alone separates outcomes n and n + 1.
RoundingSlack(k) ==
    IF k < Len(legs)
    THEN (100 - legs[k + 1].lay.fee) + (legs[k].lay.odds - legs[k].lay.fee)
    ELSE legs[k].lay.odds - legs[k].lay.fee

\* 2 * |a - b| <= m, for fractions a and b.
WithinHalf(a, b, m) ==
    LET d == RSub(a, b) IN 2 * Abs(d.num) <= m * d.den

EffectiveStake(k) ==
    LET p == RMul(Rat(combo.stake, 1), back_odds_product(legs, k - 1))
    IN  p.num \div p.den

\* The lay stake the pairwise calculator of the same variant returns for leg
\* k backed with its effective stake.
PairwiseStake(k) ==
    calculate_stake(Calculator(calc.kind, calc.reimbursement, 0, 0, 0),
                    Bet(legs[k].back.odds, Num(EffectiveStake(k)), combo.fee),
                    legs[k].lay).result.lay_stake

\* C19 (as claimed): the hedge stake of every leg k is the pairwise solver's
\* stake for a back bet whose stake is the combo stake times the back odds of
\* legs 1..k-1.
C19_EveryLegPairwise ==
    AccSolved =>
        \A k \in 1..Len(legs) :
            result.accumulated_lay_bets[k].lay_stake = PairwiseStake(k)

\* C19 (amended): the hedge stake of the last leg of a Normal or
\* Reimbursement chain, and of the only leg of a one-leg chain of every
\* variant, is the pairwise solver's stake for a back bet whose stake is the
\* combo stake times the back odds of the legs before it.
C19_LastLegPairwise ==
    AccSolved /\ (calc.kind # "freebet" \/ Len(legs) = 1) =>
        result.accumulated_lay_bets[Len(legs)].lay_stake
            = PairwiseStake(Len(legs))

\* C19 witness: a Reimbursement chain of three legs is solved.
C19_Witness ==
    /\ AccSolved
    /\ calc.kind = "reimbursement"
    /\ Len(legs) = 3
    /\ IsNum(PairwiseStake(3))

\* C20 (as claimed): the list has one entry per leg in leg order and the lay
\* stake of leg k + 1 is greater than the lay stake of leg k.
C20_StakesGrow ==
    AccSolved =>
        /\ Len(result.accumulated_lay_bets) = Len(legs)
        /\ \A k \in 1..(Len(legs) - 1) : AccStake(k + 1) > AccStake(k)

\* The stake of leg k before rounding, for the calculator that has returned.
ExactStake(k) == accumulated_lay_stake(calc, combo, legs, k)

\* C20 (amended): the list has one entry per leg, entry k being the rounded
\* stake of leg k with its liability; while the stakes are not negative the
\* lay stake of leg k + 1 is at least that of leg k when o(k) - f(k)/100 >=
\* 1 - f(k+1)/100 and at most that of leg k when o(k) - f(k)/100 <=
\* 1 - f(k+1)/100.
C20_StakesOrderedByNetOdds ==
    AccSolved =>
        /\ Len(result.accumulated_lay_bets) = Len(legs)
        /\ \A k \in 1..Len(legs) :
               /\ result.accumulated_lay_bets[k].lay_stake
                      = round2(ExactStake(k))
               /\ result.accumulated_lay_bets[k].risk
                      = Risk(round2(ExactStake(k)), legs[k].lay.odds)
        /\ \A k \in 1..(Len(legs) - 1) :
               LET net == legs[k].lay.odds - legs[k].lay.fee
                   keep == 100 - legs[k + 1].lay.fee
               IN  AccStake(Len(legs)) >= 0 =>
                       /\ net >= keep => AccStake(k + 1) >= AccStake(k)
                       /\ net <= keep => AccStake(k + 1) <= AccStake(k)

\* C20 witness: a chain of three legs whose stakes grow from leg 1 to leg 2
\* and shrink from leg 2 to leg 3.
C20_Witness ==
    /\ AccSolved
    /\ Len(legs) = 3
    /\ AccStake(2) > AccStake(1)
    /\ AccStake(3) < AccStake(2)

----------------------------------------------------------------------------
\* Properties of the dutching calculators.

\* A dutching calculator has just returned its mapping.
DutchSolved ==
    /\ last_op = "calculate_stake"
    /\ fault = "none"
    /\ calc # NoCalc
    /\ calc.strategy = "dutching"
    /\ result # NoResult

\* The stakes returned, added up, in cents.
RECURSIVE StakesUpTo(_)
StakesUpTo(k) == IF k = 0 THEN 0 ELSE StakesUpTo(k - 1) + result.stakes[k].v

\* The net balance at the returned stakes when the main back bet wins, in
\* 1/Scale cent: every hedge bet forfeits its stake.
MainWinsBalance ==
    main_wins(calc, dgroup) - Scale * StakesUpTo(Len(dgroup.bets))

\* The net balance at the returned stakes when hedge bet i wins: it returns
\* its stake at its net odds, every stake is paid, the main back bet loses.
HedgeWinsBalance(i) ==
    result.stakes[i].v * net_odds(dgroup.bets[i])
        - Scale * StakesUpTo(Len(dgroup.bets))
        + main_loses(calc, dgroup)

\* A balance in 1/Scale cent, rounded to the cent.
ToCents(b) == RoundHalfEven(b, Scale)

\* C18 (as claimed): one stake per hedge bet in input order, the net balance
\* (to the cent) is the same whichever bet wins, and that value is the
\* reported overall_balance.
C18_SameBalanceWhicheverWins ==
    DutchSolved =>
        /\ Len(result.stakes) = Len(dgroup.bets)
        /\ ToCents(MainWinsBalance) = result.overall_balance.v
        /\ \A i \in 1..Len(dgroup.bets) :
               ToCents(HedgeWinsBalance(i)) = result.overall_balance.v

\* C18 (amended): one stake per hedge bet in input order, each the exact
\* equalising stake rounded to 2 decimals; at the returned stakes the balance
\* when hedge bet i wins is within 0.005 * o(i) * (1 - f(i)/100) of the
\* balance when the main back bet wins, and the reported overall_balance is
\* within 0.005 * (number of hedge bets + 1) of the latter.
C18_BalancedUpToStakeRounding ==
    DutchSolved =>
        /\ Len(result.stakes) = Len(dgroup.bets)
        /\ \A i \in 1..Len(dgroup.bets) :
               /\ result.stakes[i] = round2(dutching_stake(calc, dgroup, i))
               /\ 2 * Abs(HedgeWinsBalance(i) - MainWinsBalance)
                      <= net_odds(dgroup.bets[i])
        /\ 2 * Abs(Scale * result.overall_balance.v - MainWinsBalance)
               <= Scale * (Len(dgroup.bets) + 1)

\* C18 witness: a freebet group with the two hedge bets of the test is
\* solved, and the balance when the second hedge bet wins is off the
\* reported overall balance.
C18_Witness ==
    /\ DutchSolved
    /\ calc.kind = "freebet"
    /\ Len(dgroup.bets) = 2
    /\ dgroup.bets[1].odds = 170
    /\ dgroup.bets[2].odds = 1500
    /\ ToCents(HedgeWinsBalance(2)) # result.overall_balance.v

----------------------------------------------------------------------------
\* Properties of repeated solving.

\* This step is a calculate_stake call that directly follows a calculate_stake
\* call that returned: same calculator, same bets, nothing in between.
SecondCallInARow ==
    /\ Returned
    /\ last_op' = "calculate_stake"
    /\ calls' = calls + 1

\* C21: calling calculate_stake twice in a row on the same pairwise
\* calculator returns the same lay_stake and risk both times and leaves the
\* lay bet's stake as the first call left it.
C21_SolvingIdempotent ==
    [][SecondCallInARow =>
          /\ fault' = "none"
          /\ result'.lay_stake = result.lay_stake
          /\ result'.risk = result.risk
          /\ lay_bet'.stake = lay_bet.stake
          /\ calc'.risk = calc.risk]_vars

\* C21 witness: two calls have returned, the last one a real stake that the
\* lay bet holds.
C21_Witness ==
    /\ Returned
    /\ returned = 2
    /\ stake_writes = 2
    /\ IsNum(result.lay_stake)
    /\ lay_bet.stake = result.lay_stake

----------------------------------------------------------------------------
\* Properties of the fee terms.

----------------------------------------------------------------------------
\* Properties of the CalculationEngine.

\* The last operation was a create_equation_system call.
Called == last_op = "create_equation_system"

\* What an engine without a cache does with the arguments a of a call on the
\* objects objs.
Uncached(objs, a) ==
    solve_system(EmptyCache, cache_key(a.back, a.lay, a.variable),
                 objs[a.back], objs[a.lay], a.variable)

\* This step is a create_equation_system call.
EngineCall == last_op' = "create_equation_system" /\ calls' = calls + 1

\* C23: when create_equation_system cannot solve (no solution, or an
\* expression that is not a SymPyExpression) it raises CalculationError with
\* a message that names the variable, returns nothing and adds no entry to
\* the cache.
C23_UnsolvableRaises ==
    [][EngineCall /\ Uncached(objects', args').exc # "none" =>
          /\ fault' = "CalculationError"
          /\ fault_msg'.message = FailedToSolveMessage \o args'.variable
          /\ result' = NoResult
          /\ cached_solutions' = cached_solutions]_vars

\* C24: the cache is keyed by the structure of the two expressions and the
\* variable.  A call with a pair structurally equal to the pair of the call
\* just before it, and the same variable, uses the entry that call made and
\* adds none; a call that finds an entry finds one made for expressions of
\* the structure it passes.
C24_CacheKeyedByStructure ==
    [][EngineCall =>
          /\ ( /\ Called /\ fault = "none"
               /\ objects[args'.back] = objects[args.back]
               /\ objects[args'.lay] = objects[args.lay]
               /\ args'.variable = args.variable )
             => cached_solutions' = cached_solutions
          /\ cache_key(args'.back, args'.lay, args'.variable)
                 \in DOMAIN cached_solutions
             => /\ Uncached(objects, args').exc = "none"
                /\ result' = Uncached(objects, args').value]_vars

\* C25: every solution create_equation_system returns solves back_balance =
\* lay_balance for the expressions passed to that call: it is what an engine
\* without a cache returns for them.
C25_SolutionOfThisCall ==
    Called /\ fault = "none" =>
        /\ Uncached(objects, args).exc = "none"
        /\ result = Uncached(objects, args).value

----------------------------------------------------------------------------
\* Properties of the closed-form calculators.

\* This step is a calculate_stake call of a closed-form calculator on valid
\* bets (the back stake known).
ClosedFormCall ==
    /\ last_op' = "closed_form_calculate_stake"
    /\ back_bet.stake # None

\* C26: for all valid inputs the closed-form calculator returns the lay_stake
\* and risk that the symbolic-equation calculator of the same variant returns
\* on the same bets and promotion parameters.
C26_ClosedFormAgrees ==
    [][ClosedFormCall =>
          /\ fault' = "none"
          /\ calculate_stake(calc, back_bet, lay_bet).exc = "none"
          /\ result' = calculate_stake(calc, back_bet, lay_bet).result]_vars

----------------------------------------------------------------------------
\* Further properties of the registry and the factory.

\* C27: register_calculators() is all-or-nothing: when it raises, the
\* registry holds exactly the entries it held before the call; when it
\* returns, every built-in entry is present, and a call after one that
\* returned changes nothing.
C27_RegisterCalculatorsAllOrNothing ==
    [][(last_op' = "register_calculators" /\ calls' # calls) =>
          /\ fault' # "none" => registry' = registry
          /\ fault' = "none" => HoldsBuiltins(registry')
          /\ registered => (fault' = "none" /\ registry' = registry)]_vars
Strategies == {"back_lay", "dutching", "accumulated"}

\* The calculator_map of the factory method of a strategy.
FactoryMapOf(strategy) ==
    CASE strategy = "back_lay" -> back_lay_calculator_map
      [] strategy = "dutching" -> dutching_calculator_map
      [] strategy = "accumulated" -> accumulated_calculator_map

\* No parameter supplied.
NoKwargs ==
    [reimbursement |-> None, bonus_amount |-> None,
     remaining_rollover |-> None, expected_rating |-> None]

\* The types the factory accepts for a strategy, among those a caller or the
\* registry can name, and the parameters it reports missing for a type when
\* none is supplied.
FactoryAccepts(strategy) ==
    {t \in TypeInputs \union RegTypeInputs \union DOMAIN ClassesOf(registry', strategy) :
        factory_checks(FactoryMapOf(strategy), t, NoKwargs).msg.message
            # InvalidTypeMessage}
FactoryEnforces(strategy, t) ==
    missing_params(FactoryMapOf(strategy)[t], NoKwargs)

\* The types this step added to the registry for a strategy.
Added(strategy) ==
    DOMAIN ClassesOf(registry', strategy)
        \ DOMAIN ClassesOf(registry, strategy)

\* C28: for each strategy, the types the factory accepts and the parameters
\* it requires for each are the types and the required-parameter lists that
\* register_calculators() puts into the registry.
C28_FactoryMatchesBuiltins ==
    [][(/\ last_op' = "register_calculators"
        /\ calls' # calls
        /\ ~registered
        /\ fault' = "none") =>
          \A strategy \in Strategies :
              /\ Added(strategy) = FactoryAccepts(strategy)
              /\ \A t \in Added(strategy) :
                     get_required_params(registry', strategy, t).value
                         = List(FactoryEnforces(strategy, t))]_vars

\* C28 witness: register_calculators() has filled a registry that held a
\* type of the caller's, which the factory does not know.
C28_Witness ==
    /\ last_op = "register_calculators"
    /\ fault = "none"
    /\ registered
    /\ HoldsBuiltins(registry)
    /\ "test_normal" \in DOMAIN registry.dutching_calculators
    /\ "rollover" \in DOMAIN registry.dutching_calculators
    /\ "rollover" \notin DOMAIN registry.accumulated_calculators


\* C29: the Reimbursement calculator with reimbursement = 0 returns the
\* lay_stake and the risk the Normal calculator returns on the same two
\* bets, and create_back_lay_calculator takes reimbursement=0 as a supplied
\* parameter: it raises nothing and returns the calculator holding 0.
NormalOnSameBets == calculate_stake(Calculator("normal", 0, 0, 0, 0), back_bet, lay_bet)
ZeroReimbursementCall ==
    /\ last_op = "create_back_lay_calculator"
    /\ args.calculator_type = "reimbursement"
    /\ args.kwargs.reimbursement = Num(0)
C29_ZeroReimbursementIsNormal ==
    /\ (Returned /\ calc.kind = "reimbursement" /\ calc.reimbursement = 0) =>
           /\ NormalOnSameBets.exc = "none"
           /\ result.lay_stake = NormalOnSameBets.result.lay_stake
           /\ result.risk = NormalOnSameBets.result.risk
    /\ ZeroReimbursementCall =>
           /\ fault = "none"
           /\ fault_msg = NoMessage
           /\ calc = Calculator("reimbursement", 0, 0, 0, 0)
C29_Witness ==
    /\ Returned
    /\ calc.kind = "reimbursement" /\ calc.reimbursement = 0
    /\ args.kwargs.reimbursement = Num(0)
    /\ back_bet = Bet(210, Num(10000), 5)
    /\ IsNum(result.lay_stake) /\ result.lay_stake.v > 0


\* C30: in every reachable state of the registry the class dictionary and
\* the required-parameter dictionary of each strategy have the same keys, so
\* get_required_params(strategy, t) raises exactly when the getter of the
\* strategy raises for t; and a register_<strategy>_calculator call leaves
\* both dictionaries of the other two strategies as they were.
ParamsOf(reg, strategy) ==
    CASE strategy = "back_lay" -> reg.back_lay_params
      [] strategy = "dutching" -> reg.dutching_params
      [] strategy = "accumulated" -> reg.accumulated_params
LookupTypes == TypeInputs \union RegTypeInputs
KeySetsAgree ==
    \A strategy \in Strategies :
        /\ DOMAIN ClassesOf(registry, strategy) = DOMAIN ParamsOf(registry, strategy)
        /\ \A t \in LookupTypes :
               get_required_params(registry, strategy, t).exc = "none"
                   <=> GetCalculator(registry, strategy, t).exc = "none"
OtherStrategiesUntouched ==
    last_op' \in RegisterOps =>
        \A strategy \in Strategies \ {StrategyOf(last_op')} :
            /\ ClassesOf(registry', strategy) = ClassesOf(registry, strategy)
            /\ ParamsOf(registry', strategy) = ParamsOf(registry, strategy)
C30_MapsInStep == []KeySetsAgree /\ [][OtherStrategiesUntouched]_vars
C30_Witness ==
    /\ last_op = "register_dutching_calculator"
    /\ fault = "none"
    /\ args.calculator_type = "test_normal"
    /\ DOMAIN registry.dutching_calculators = {"freebet", "test_normal"}
    /\ DOMAIN registry.dutching_params = {"freebet", "test_normal"}
    /\ DOMAIN registry.back_lay_calculators = {"freebet"}
    /\ DOMAIN registry.accumulated_calculators = {}

============================================================================
